---- MODULE Spec2Model ----
(***************************************************************************)
(* Device-polling and mirror-session coordinator of tvini_helper.py.       *)
(*                                                                         *)
(* Text is modelled as sequences of one-character strings so that          *)
(* strip/split/lower/substring tests are computed, not assumed.            *)
(***************************************************************************)
EXTENDS Integers, Sequences, FiniteSets, TLC

VARIABLES
    \* one call of get_adb_devices on a given tool output (BridgeSpec)
    bridge_lines,   \* the output lines the tool printed after its header
    bridge_run,     \* outcome of `adb devices -l`
    bridge_env,     \* outcome of every per-device query
    bridge_pc,      \* "call" before get_adb_devices ran, "done" after
    listed          \* the list get_adb_devices returned

bridgeVars == <<bridge_lines, bridge_run, bridge_env, bridge_pc, listed>>

VARIABLES
    \* one monitor_output thread reading one output stream (MonitorSpec)
    mon_stream,     \* the lines the stream still holds
    mon_line,       \* the line read last, as readline returned it
    mon_events,     \* the self.after calls made for that line
    mon_pc          \* "reading", or "ended" at end of stream or on an error

monVars == <<mon_stream, mon_line, mon_events, mon_pc>>

VARIABLES
    \* one call of _check_for_update (UpdateSpec)
    upd_response,   \* what the endpoint answered
    upd_result,     \* what _check_for_update returned: "data" or "None"
    upd_pc          \* "call" before _check_for_update ran, "done" after

updVars == <<upd_response, upd_result, upd_pc>>

VARIABLES
    \* AndroidMirrorApp and its threads (Spec)
    adb_path,        \* TRUE when self.adb_path names the bridge executable
    scrcpy_path,     \* TRUE when self.scrcpy_path names the mirroring tool
    current_devices, \* self.current_devices: the stored snapshot
    device_cards,    \* self.device_cards: ids of the cards on display
    cards,           \* every DeviceCard created so far, by id
    active_mirrors,  \* self.active_mirrors: serial -> process id
    procs,           \* every mirror process started so far, by id
    launches,        \* every launch() worker thread started so far, by id
    refresh_count,   \* calls of _refresh_devices so far
    fetching,        \* _fetch_and_update threads that have not dispatched yet
    ui_queue,        \* callbacks posted with self.after(0, ...), oldest first
    pending_timers,  \* poll timers scheduled with self.after(POLL_INTERVAL_MS)
    poll_job,        \* self._poll_job: id of the last timer scheduled
    destroyed,       \* destroy() has run
    count_label,     \* the count shown by device_count_label
    empty_shown,     \* the empty-state frame is packed
    toast,           \* the toast shown last
    last_update,     \* the argument of the last _update_device_list call
    fetch_by         \* per call of _refresh_devices: "poll" or "manual" when
                     \* it started a query thread, "none" when it did not

appVars == <<adb_path, scrcpy_path, current_devices, device_cards, cards,
             active_mirrors, procs, launches, refresh_count, fetching,
             ui_queue, pending_timers, poll_job, destroyed, count_label,
             empty_shown, toast, last_update, fetch_by>>

vars == <<bridgeVars, monVars, updVars, appVars>>

\* ------------------------------------------------------------------------
\* Text primitives (Python str methods used by the source)
\* ------------------------------------------------------------------------

Whitespace == {" ", "\t", "\n", "\r"}

Digits == <<"0", "1", "2", "3", "4", "5", "6", "7", "8", "9">>

IsDigit(c) == \E i \in 1..Len(Digits) : Digits[i] = c

DigitVal(c) == (CHOOSE i \in 1..Len(Digits) : Digits[i] = c) - 1

UpperChars == <<"A", "B", "C", "D", "E", "F", "G", "H", "I", "J", "K", "L", "M",
                "N", "O", "P", "Q", "R", "S", "T", "U", "V", "W", "X", "Y", "Z">>

LowerChars == <<"a", "b", "c", "d", "e", "f", "g", "h", "i", "j", "k", "l", "m",
                "n", "o", "p", "q", "r", "s", "t", "u", "v", "w", "x", "y", "z">>

LowerChar(c) ==
    IF \E i \in 1..Len(UpperChars) : UpperChars[i] = c
    THEN LowerChars[CHOOSE i \in 1..Len(UpperChars) : UpperChars[i] = c]
    ELSE c

\* str.lower()
lower(s) == [i \in 1..Len(s) |-> LowerChar(s[i])]

\* needle in hay
Contains(hay, needle) ==
    \E i \in 1..(Len(hay) - Len(needle) + 1) :
        SubSeq(hay, i, i + Len(needle) - 1) = needle

RECURSIVE lstrip(_)
lstrip(s) ==
    IF s # <<>> /\ Head(s) \in Whitespace THEN lstrip(Tail(s)) ELSE s

RECURSIVE rstrip(_)
rstrip(s) ==
    IF s # <<>> /\ s[Len(s)] \in Whitespace
    THEN rstrip(SubSeq(s, 1, Len(s) - 1))
    ELSE s

\* str.strip()
strip(s) == rstrip(lstrip(s))

\* index of the first character of s satisfying "is c", or Len(s)+1
RECURSIVE FindChar(_, _, _)
FindChar(s, c, i) ==
    IF i > Len(s) THEN i
    ELSE IF s[i] = c THEN i
    ELSE FindChar(s, c, i + 1)

\* str.splitlines() for text whose only line terminator is "\n"
RECURSIVE splitlines(_)
splitlines(s) ==
    IF s = <<>> THEN <<>>
    ELSE LET n == FindChar(s, "\n", 1)
         IN  <<SubSeq(s, 1, n - 1)>> \o splitlines(SubSeq(s, n + 1, Len(s)))

\* length of the maximal prefix of s holding no whitespace
RECURSIVE WordLen(_)
WordLen(s) ==
    IF s = <<>> \/ Head(s) \in Whitespace THEN 0 ELSE 1 + WordLen(Tail(s))

\* str.split() with no argument: runs of whitespace separate, no empty tokens
RECURSIVE split(_)
split(s) ==
    LET t == lstrip(s)
    IN  IF t = <<>> THEN <<>>
        ELSE LET n == WordLen(t)
             IN  <<SubSeq(t, 1, n)>> \o split(SubSeq(t, n + 1, Len(t)))

\* length of the maximal prefix of s made of digits
RECURSIVE DigitRun(_)
DigitRun(s) ==
    IF s = <<>> \/ ~IsDigit(Head(s)) THEN 0 ELSE 1 + DigitRun(Tail(s))

\* int() of a non-empty digit string
RECURSIVE int(_)
int(s) ==
    IF s = <<>> THEN 0
    ELSE 10 * int(SubSeq(s, 1, Len(s) - 1)) + DigitVal(s[Len(s)])

Suffix(s, i) == SubSeq(s, i, Len(s))

\* python dict as a function; d[k] = v
DictSet(d, k, v) ==
    [x \in DOMAIN d \cup {k} |-> IF x = k THEN v ELSE d[x]]

\* d.get(k, default)
DictGet(d, k, default) == IF k \in DOMAIN d THEN d[k] ELSE default

\* ------------------------------------------------------------------------
\* BridgeClient: get_adb_devices and the per-device property queries
\* ------------------------------------------------------------------------

T_offline == <<"o", "f", "f", "l", "i", "n", "e">>
T_device == <<"d", "e", "v", "i", "c", "e">>
T_unauthorized == <<"u", "n", "a", "u", "t", "h", "o", "r", "i", "z", "e", "d">>
T_unknown == <<"u", "n", "k", "n", "o", "w", "n">>
T_level == <<"l", "e", "v", "e", "l", ":">>
K_serial == <<"s", "e", "r", "i", "a", "l">>
K_status == <<"s", "t", "a", "t", "u", "s">>
K_model == <<"m", "o", "d", "e", "l">>
K_manufacturer == <<"m", "a", "n", "u", "f", "a", "c", "t", "u", "r", "e", "r">>
K_android_version == <<"a", "n", "d", "r", "o", "i", "d", "_", "v", "e", "r", "s", "i", "o", "n">>
K_sdk == <<"s", "d", "k">>
K_resolution == <<"r", "e", "s", "o", "l", "u", "t", "i", "o", "n">>
K_battery == <<"b", "a", "t", "t", "e", "r", "y">>

\* Outcome of one subprocess.run: ok = FALSE is TimeoutExpired,
\* FileNotFoundError or OSError; otherwise stdout holds the captured text.
RunOk(text) == [ok |-> TRUE, stdout |-> text]

RunFail == [ok |-> FALSE, stdout |-> <<>>]

\* The bridge queries issued per device, named by their command arguments.
PropQueries == {"ro.product.model", "ro.product.manufacturer",
                "ro.build.version.release", "ro.build.version.sdk"}

Queries == PropQueries \cup {"wm size", "dumpsys battery"}

\* What the bridge answers to query q for device serial in environment env
\* (a function serial -> query -> outcome).  A serial the environment does
\* not know answers with empty output.
shell(env, serial, q) ==
    IF serial \in DOMAIN env THEN env[serial][q] ELSE RunOk(<<>>)

\* faulty variant of OrElse: the fallback after "or" is dropped
OrElse_NoFallback(x, y) == x

\* x or y on strings
OrElse(x, y) == IF x # <<>> THEN x ELSE y

_adb_prop(env, serial, prop) ==
    LET r == shell(env, serial, prop)
    IN  IF r.ok THEN strip(r.stdout) ELSE <<>>

\* re.search(r"(\d+x\d+)", s) from position i on: the leftmost match
RECURSIVE SearchResolution(_, _)
SearchResolution(s, i) ==
    IF i > Len(s) THEN <<>>
    ELSE LET w == DigitRun(Suffix(s, i))
             h == IF w > 0 /\ i + w <= Len(s) /\ s[i + w] = "x"
                  THEN DigitRun(Suffix(s, i + w + 1))
                  ELSE 0
         IN  IF h > 0 THEN SubSeq(s, i, i + w + h)
             ELSE SearchResolution(s, i + 1)

_get_resolution(env, serial) ==
    LET r == shell(env, serial, "wm size")
    IN  IF r.ok THEN SearchResolution(r.stdout, 1) ELSE <<>>

\* length of the maximal whitespace prefix of s
RECURSIVE SpaceRun(_)
SpaceRun(s) ==
    IF s = <<>> \/ Head(s) \notin Whitespace THEN 0 ELSE 1 + SpaceRun(Tail(s))

\* re.search(r"level:\s*(\d+)", s) from position i on: group 1 of the
\* leftmost match, <<>> when there is none
RECURSIVE SearchLevel(_, _)
SearchLevel(s, i) ==
    IF i + Len(T_level) - 1 > Len(s) THEN <<>>
    ELSE LET j == i + Len(T_level)
             k == j + SpaceRun(Suffix(s, j))
             n == DigitRun(Suffix(s, k))
         IN  IF SubSeq(s, i, j - 1) = T_level /\ n > 0
             THEN SubSeq(s, k, k + n - 1)
             ELSE SearchLevel(s, i + 1)

\* int | None, as a sequence of at most one number (<<>> is None)
_get_battery(env, serial) ==
    LET r == shell(env, serial, "dumpsys battery")
        m == IF r.ok THEN SearchLevel(r.stdout, 1) ELSE <<>>
    IN  IF m # <<>> THEN <<int(m)>> ELSE <<>>

\* the loop over parts[2:]: key:value tokens become entries of info
RECURSIVE CollectProps(_, _)
CollectProps(info, parts) ==
    IF parts = <<>> THEN info
    ELSE LET part == Head(parts)
             c == FindChar(part, ":", 1)
         IN  IF c <= Len(part)
             THEN CollectProps(DictSet(info, SubSeq(part, 1, c - 1),
                                       Suffix(part, c + 1)),
                               Tail(parts))
             ELSE CollectProps(info, Tail(parts))

\* line 200: a line the loop skips before tokenizing
SkippedLine(line) == line = <<>> \/ Contains(line, T_offline)

\* faulty variant of StatusListed: only "offline" is filtered out
StatusListed_NotOffline(status) == status # T_offline

\* line 207: the statuses that are listed
StatusListed(status) == status \in {T_device, T_unauthorized}

\* lines 217-223: the property queries of a device with status "device"
QueryProps(env, info) ==
    LET serial == info[K_serial]
        i1 == DictSet(info, K_model,
                      OrElse(_adb_prop(env, serial, "ro.product.model"),
                             DictGet(info, K_model, serial)))
        i2 == DictSet(i1, K_manufacturer,
                      OrElse(_adb_prop(env, serial, "ro.product.manufacturer"), <<>>))
        i3 == DictSet(i2, K_android_version,
                      OrElse(_adb_prop(env, serial, "ro.build.version.release"), <<>>))
        i4 == DictSet(i3, K_sdk,
                      OrElse(_adb_prop(env, serial, "ro.build.version.sdk"), <<>>))
        i5 == DictSet(i4, K_resolution, _get_resolution(env, serial))
    IN  DictSet(i5, K_battery, _get_battery(env, serial))

\* one iteration of the loop body: <<>> when the line is skipped,
\* <<info>> when a device is appended
ParseDeviceLine(env, rawline) ==
    LET line == strip(rawline)
    IN  IF SkippedLine(line) THEN <<>>
        ELSE LET parts == split(line)
                 serial == parts[1]
                 status == IF Len(parts) > 1 THEN parts[2] ELSE T_unknown
                 info0 == (K_serial :> serial) @@ (K_status :> status)
                 info1 == CollectProps(info0, SubSeq(parts, 3, Len(parts)))
             IN  IF ~StatusListed(status) THEN <<>>
                 ELSE IF status = T_device THEN <<QueryProps(env, info1)>>
                 ELSE <<info1>>

RECURSIVE ParseDeviceLines(_, _)
ParseDeviceLines(env, lines) ==
    IF lines = <<>> THEN <<>>
    ELSE ParseDeviceLine(env, Head(lines)) \o ParseDeviceLines(env, Tail(lines))

\* result.stdout.strip().splitlines()[1:]
DeviceLines(stdout) ==
    LET ls == splitlines(strip(stdout))
    IN  IF ls = <<>> THEN <<>> ELSE Tail(ls)

get_adb_devices(run, env) ==
    IF ~run.ok THEN <<>>
    ELSE ParseDeviceLines(env, DeviceLines(run.stdout))

\* ------------------------------------------------------------------------
\* Tool outputs the model draws from
\* ------------------------------------------------------------------------

T_header == <<"L", "i", "s", "t", " ", "o", "f", " ", "d", "e", "v", "i", "c", "e", "s", " ", "a", "t", "t", "a", "c", "h", "e", "d">>
S1 == <<"s", "1">>
S2 == <<"s", "2">>
L_dev1 == <<"s", "1", " ", " ", "d", "e", "v", "i", "c", "e", " ", "m", "o", "d", "e", "l", ":", "P", "i", "x">>
L_dev2 == <<" ", "s", "2", " ", "d", "e", "v", "i", "c", "e", " ">>
L_unauth2 == <<"s", "2", "\t", "u", "n", "a", "u", "t", "h", "o", "r", "i", "z", "e", "d", " ", "u", "s", "b", ":", "1">>
L_offline == <<"s", "3", " ", "o", "f", "f", "l", "i", "n", "e">>
L_recovery == <<"s", "4", " ", "r", "e", "c", "o", "v", "e", "r", "y">>
L_nostatus == <<"s", "5">>
L_offserial == <<"o", "f", "f", "l", "i", "n", "e", "7", " ", "d", "e", "v", "i", "c", "e">>
O_model1 == <<"P", "i", "x", "e", "l", "\n">>
O_model2 == <<"N", "e", "o", "\n">>
O_manu1 == <<"g", "o", "o", "g", "l", "e", "\n">>
O_manu2 == <<"a", "c", "m", "e", "\n">>
O_rel1 == <<"1", "4", "\n">>
O_rel2 == <<"9", "\n">>
O_sdk1 == <<"3", "4", "\n">>
O_sdk2 == <<"2", "8", "\n">>
O_size1 == <<"P", "h", "y", "s", "i", "c", "a", "l", " ", "s", "i", "z", "e", ":", " ", "1", "0", "8", "0", "x", "2", "3", "4", "0", "\n">>
O_size2 == <<"P", "h", "y", "s", "i", "c", "a", "l", " ", "s", "i", "z", "e", ":", " ", "7", "2", "0", "x", "1", "2", "8", "0", "\n", "O", "v", "e", "r", "r", "i", "d", "e", " ", "s", "i", "z", "e", ":", " ", "1", "0", "x", "2", "0", "\n">>
O_bat1 == <<" ", " ", "l", "e", "v", "e", "l", ":", " ", "8", "0", "\n", " ", " ", "s", "c", "a", "l", "e", ":", " ", "1", "0", "0", "\n">>
O_bat2 == <<"l", "e", "v", "e", "l", ":", "5", "\n">>
L_blank == <<>>

\* lines `adb devices -l` may print after its header
ToolLines == {L_dev1, L_dev2, L_unauth2, L_offline, L_recovery, L_nostatus,
             L_offserial, L_blank}

\* the serials for which per-device queries are answered
Serials == {S1, S2}

\* what each query prints for each serial when it succeeds
GoodOutput(serial, q) ==
    IF serial = S1
    THEN CASE q = "ro.product.model" -> O_model1
           [] q = "ro.product.manufacturer" -> O_manu1
           [] q = "ro.build.version.release" -> O_rel1
           [] q = "ro.build.version.sdk" -> O_sdk1
           [] q = "wm size" -> O_size1
           [] q = "dumpsys battery" -> O_bat1
    ELSE CASE q = "ro.product.model" -> O_model2
           [] q = "ro.product.manufacturer" -> O_manu2
           [] q = "ro.build.version.release" -> O_rel2
           [] q = "ro.build.version.sdk" -> O_sdk2
           [] q = "wm size" -> O_size2
           [] q = "dumpsys battery" -> O_bat2

\* An environment in which, for each serial, the queries in failing[serial]
\* fail (by exception or timeout when raises, with empty output otherwise)
\* and the others succeed.
QueryEnv(failing, raises) ==
    [serial \in Serials |->
        [q \in Queries |->
            IF q \in failing[serial]
            THEN (IF raises THEN RunFail ELSE RunOk(<<>>))
            ELSE RunOk(GoodOutput(serial, q))]]

AllGoodEnv == QueryEnv([serial \in Serials |-> {}], TRUE)

RECURSIVE JoinLines(_)
JoinLines(lines) ==
    IF lines = <<>> THEN <<>>
    ELSE Head(lines) \o <<"\n">> \o JoinLines(Tail(lines))

\* the text the tool prints: header, the device lines, a closing blank line
ToolOutput(lines) == T_header \o <<"\n">> \o JoinLines(lines) \o <<"\n">>

\* sequences over S of length at most n
RECURSIVE SeqsUpTo(_, _)
SeqsUpTo(S, n) ==
    IF n = 0 THEN {<<>>}
    ELSE LET shorter == SeqsUpTo(S, n - 1)
         IN  shorter \cup {Append(q, x) : q \in shorter, x \in S}

\* ------------------------------------------------------------------------
\* BridgeSpec: get_adb_devices applied to every bounded tool output
\* ------------------------------------------------------------------------

MaxLines == 3

BridgeInit ==
    /\ bridge_lines \in SeqsUpTo(ToolLines, MaxLines)
    /\ \E launched \in BOOLEAN :
          bridge_run = IF launched THEN RunOk(ToolOutput(bridge_lines)) ELSE RunFail
    /\ \E f1 \in SUBSET Queries, raises \in BOOLEAN :
          bridge_env = QueryEnv((S1 :> f1)
                                @@ (S2 :> IF raises THEN f1 ELSE Queries \ f1),
                                raises)
    /\ bridge_pc = "call"
    /\ listed = <<>>

ListDevices ==
    /\ bridge_pc = "call"
    /\ listed' = get_adb_devices(bridge_run, bridge_env)
    /\ bridge_pc' = "done"
    /\ UNCHANGED <<bridge_lines, bridge_run, bridge_env>>


\* ------------------------------------------------------------------------
\* monitor_output: classification of the mirror process's output lines
\* ------------------------------------------------------------------------

T_installing == <<"i", "n", "s", "t", "a", "l", "l", "i", "n", "g">>
T_install_sp == <<"i", "n", "s", "t", "a", "l", "l", " ">>
T_success == <<"s", "u", "c", "c", "e", "s", "s">>
T_failure == <<"f", "a", "i", "l", "u", "r", "e">>
T_failed == <<"f", "a", "i", "l", "e", "d">>
T_error == <<"e", "r", "r", "o", "r">>
M_install_failed == <<"I", "N", "S", "T", "A", "L", "L", " ", "F", "A", "I", "L", "E", "D", "\n">>
M_success == <<"S", "u", "c", "c", "e", "s", "s", "\n">>
M_installing == <<"I", "n", "s", "t", "a", "l", "l", "i", "n", "g", " ", "a", "p", "p", ".", "a", "p", "k", "\n">>
M_error == <<"a", "d", "b", ":", " ", "e", "r", "r", "o", "r", ":", " ", "c", "l", "o", "s", "e", "d", "\n">>
M_install_success == <<"I", "n", "s", "t", "a", "l", "l", " ", "S", "u", "c", "c", "e", "s", "s", "\n">>
M_info == <<"I", "N", "F", "O", ":", " ", "R", "e", "n", "d", "e", "r", "e", "r", ":", " ", "d", "i", "r", "e", "c", "t", "3", "d", "\n">>
M_spaces == <<" ", " ", "\n">>
M_failure == <<"F", "a", "i", "l", "u", "r", "e", " ", "[", "I", "N", "S", "T", "A", "L", "L", "_", "F", "A", "I", "L", "E", "D", "_", "O", "L", "D", "E", "R", "_", "S", "D", "K", "]", "\n">>

\* lines a mirror process may print (already decoded; readline keeps the "\n")
StreamLines == {M_install_failed, M_success, M_installing, M_error,
                M_install_success, M_info, M_spaces, M_failure}

StatusResetMs == 3000

\* self.after(delay, callback): the callback and its argument
Dispatch(delay, call, arg) == [delay |-> delay, call |-> call, arg |-> arg]

IsInstalling(l) == Contains(l, T_installing) \/ Contains(l, T_install_sp)

IsSuccess(l) == Contains(l, T_success)

IsFailure(l) ==
    Contains(l, T_failure) \/ Contains(l, T_failed) \/ Contains(l, T_error)

\* lines 858-867: the if / elif / elif chain on the lowered line
ClassifyLine(line_lower) ==
    IF IsInstalling(line_lower)
    THEN <<Dispatch(0, "_update_apk_status", "Installing...")>>
    ELSE IF IsSuccess(line_lower)
    THEN <<Dispatch(0, "_update_apk_status", "Success!"),
           Dispatch(0, "_show_install_popup", "True"),
           Dispatch(StatusResetMs, "_update_apk_status", "")>>
    ELSE IF IsFailure(line_lower)
    THEN <<Dispatch(0, "_update_apk_status", "Failed!"),
           Dispatch(0, "_show_install_popup", "False"),
           Dispatch(StatusResetMs, "_update_apk_status", "")>>
    ELSE <<>>

\* lines 853-867: the loop body for one line read from the stream
MonitorLine(raw) ==
    LET line == strip(raw)
    IN  IF line = <<>> THEN <<>> ELSE ClassifyLine(lower(line))

\* ------------------------------------------------------------------------
\* MonitorSpec: one monitor thread over every bounded stream
\* ------------------------------------------------------------------------

MaxStream == 2

MonitorInit ==
    /\ mon_stream \in SeqsUpTo(StreamLines, MaxStream)
    /\ mon_line = <<>>
    /\ mon_events = <<>>
    /\ mon_pc = "reading"

\* readline returned a line
MonitorRead ==
    /\ mon_pc = "reading"
    /\ mon_stream # <<>>
    /\ mon_line' = Head(mon_stream)
    /\ mon_events' = MonitorLine(Head(mon_stream))
    /\ mon_stream' = Tail(mon_stream)
    /\ UNCHANGED mon_pc

\* readline returned b'': the iterator stops
MonitorEof ==
    /\ mon_pc = "reading"
    /\ mon_stream = <<>>
    /\ mon_pc' = "ended"
    /\ UNCHANGED <<mon_stream, mon_line, mon_events>>

\* readline raised: the bare except swallows it and the thread ends
MonitorError ==
    /\ mon_pc = "reading"
    /\ mon_pc' = "error"
    /\ UNCHANGED <<mon_stream, mon_line, mon_events>>


\* ------------------------------------------------------------------------
\* Update check: _parse_version and _check_for_update
\* ------------------------------------------------------------------------

VERSION == <<"2", ".", "0", ".", "0">>

DefaultLatest == <<"0", ".", "0", ".", "0">>

\* str.split(sep) with a one-character separator: every occurrence
\* separates and empty parts are kept
RECURSIVE split_on(_, _)
split_on(s, sep) ==
    LET n == FindChar(s, sep, 1)
    IN  IF n > Len(s) THEN <<s>>
        ELSE <<SubSeq(s, 1, n - 1)>> \o split_on(SubSeq(s, n + 1, Len(s)), sep)

\* the digits of an int() literal: surrounding whitespace and one sign are
\* dropped
LiteralBody(p) ==
    LET t == strip(p)
    IN  IF t # <<>> /\ Head(t) \in {"+", "-"} THEN Tail(t) ELSE t

\* int(p) does not raise ValueError
IsIntLiteral(p) ==
    LiteralBody(p) # <<>> /\ DigitRun(LiteralBody(p)) = Len(LiteralBody(p))

\* int(p) of a literal, with its sign
int_signed(p) ==
    IF Head(strip(p)) = "-" THEN 0 - int(LiteralBody(p)) ELSE int(LiteralBody(p))

\* lines 64-69
_parse_version(version_str) ==
    LET parts == split_on(strip(version_str), ".")
    IN  IF \A i \in 1..Len(parts) : IsIntLiteral(parts[i])
        THEN [i \in 1..Len(parts) |-> int_signed(parts[i])]
        ELSE <<0, 0, 0>>

\* Python's > on tuples of integers: the first differing component decides,
\* and a proper prefix is smaller than the longer tuple
RECURSIVE TupleGreater(_, _)
TupleGreater(a, b) ==
    IF a = <<>> THEN FALSE
    ELSE IF b = <<>> THEN TRUE
    ELSE IF Head(a) # Head(b) THEN Head(a) > Head(b)
    ELSE TupleGreater(Tail(a), Tail(b))

\* lines 71-88; response.kind is "error" when the request or the decoding
\* raised, else "data"; response.latest is <<v>> or <<>> when the key is
\* missing
_check_for_update(response) ==
    IF response.kind = "error" THEN "None"
    ELSE LET latest_version == IF response.latest = <<>> THEN DefaultLatest
                               ELSE response.latest[1]
         IN  IF TupleGreater(_parse_version(latest_version),
                             _parse_version(VERSION))
             THEN "data" ELSE "None"

\* version strings the endpoint may send: up to MaxParts components joined
\* by ".", possibly followed by a line end
MaxParts == 4

VersionParts == {<<"0">>, <<"1">>, <<"2">>, <<"9">>, <<"1", "0">>, <<"a">>, <<>>}

RECURSIVE JoinParts(_)
JoinParts(ps) ==
    IF Len(ps) = 1 THEN ps[1]
    ELSE ps[1] \o <<".">> \o JoinParts(Tail(ps))

VersionStrings ==
    LET joined == {JoinParts(ps) :
                      ps \in UNION {[1..n -> VersionParts] : n \in 1..MaxParts}}
    IN  joined \cup {v \o <<"\n">> : v \in joined}

UpdateResponses ==
    {[kind |-> "error", latest |-> <<>>], [kind |-> "data", latest |-> <<>>]}
    \cup {[kind |-> "data", latest |-> <<v>>] : v \in VersionStrings}

UpdateInit ==
    /\ upd_response \in UpdateResponses
    /\ upd_result = "None"
    /\ upd_pc = "call"

\* the update thread runs _check_for_update once
CheckForUpdate ==
    /\ upd_pc = "call"
    /\ upd_result' = _check_for_update(upd_response)
    /\ upd_pc' = "done"
    /\ UNCHANGED upd_response


\* ------------------------------------------------------------------------
\* AndroidMirrorApp: polling loop, reconciliation, mirror sessions
\* ------------------------------------------------------------------------

MaxRefresh == 2
MaxLaunches == 2

\* tool outputs and query environments the running application may meet
AppListings == {<<>>, <<L_dev1>>, <<L_unauth2, L_dev1>>}

BatteryDownEnv ==
    QueryEnv((S1 :> {"dumpsys battery"}) @@ (S2 :> {}), TRUE)

AppEnvs == {AllGoodEnv, BatteryDownEnv}

NoMirrors == [serial \in {} |-> 0]

SerialsOf(devices) == {devices[i][K_serial] : i \in 1..Len(devices)}

\* faulty variant of ListUnchanged: the lists are compared entry by entry
ListUnchanged_Exact(cur, new) == cur = new

\* line 779: the coarse comparison of the stored snapshot with a new list
ListUnchanged(cur, new) ==
    SerialsOf(cur) = SerialsOf(new) /\ Len(new) = Len(cur)

\* faulty variant of SessionLive: the poll() test is inverted
SessionLive_Inverted(am, ps, serial) ==
    serial \in DOMAIN am /\ ps[am[serial]].state # "running"

\* lines 823-825: the map holds serial and its process has not exited
SessionLive(am, ps, serial) ==
    serial \in DOMAIN am /\ ps[am[serial]].state = "running"

\* self.after(0, cb) called from a thread: the callback is queued; once the
\* application is destroyed the call either raises or registers a callback
\* that no main loop will run.
PostFromThread(cb) ==
    ui_queue' \in (IF destroyed THEN {ui_queue, Append(ui_queue, cb)}
                   ELSE {Append(ui_queue, cb)})

DestroyCards(cs, ids) ==
    [c \in 1..Len(cs) |->
        IF \E i \in 1..Len(ids) : ids[i] = c
        THEN [cs[c] EXCEPT !.alive = FALSE]
        ELSE cs[c]]

NewCard(device) == [device |-> device, is_mirroring |-> FALSE, alive |-> TRUE]

\* faulty variant of ShowEmpty: the card list is not cleared
ShowEmpty_KeepList ==
    /\ cards' = DestroyCards(cards, device_cards)
    /\ device_cards' = device_cards
    /\ empty_shown' = TRUE

\* _show_empty: destroy the cards, clear the list, pack the empty frame
ShowEmpty ==
    /\ cards' = DestroyCards(cards, device_cards)
    /\ device_cards' = <<>>
    /\ empty_shown' = TRUE

\* _refresh_devices: look for missing tools again, then either show the
\* empty state (no bridge) or start a _fetch_and_update thread
RefreshDevices(by) ==
    /\ refresh_count' = refresh_count + 1
    /\ adb_path' \in (IF adb_path THEN {TRUE} ELSE BOOLEAN)
    /\ scrcpy_path' \in (IF scrcpy_path THEN {TRUE} ELSE BOOLEAN)
    /\ fetch_by' = Append(fetch_by, IF adb_path' THEN by ELSE "none")
    /\ IF ~adb_path'
       THEN ShowEmpty /\ UNCHANGED fetching
       ELSE /\ fetching' = fetching \cup {refresh_count + 1}
            /\ UNCHANGED <<cards, device_cards, empty_shown>>

AppInit ==
    /\ adb_path \in BOOLEAN
    /\ scrcpy_path \in BOOLEAN
    /\ current_devices = <<>>
    /\ device_cards = <<>>
    /\ cards = <<>>
    /\ active_mirrors = NoMirrors
    /\ procs = <<>>
    /\ launches = <<>>
    /\ refresh_count = 1
    /\ fetching = IF adb_path THEN {1} ELSE {}
    /\ ui_queue = <<>>
    /\ pending_timers = {1}
    /\ poll_job = 1
    /\ destroyed = FALSE
    /\ count_label = 0
    /\ empty_shown = ~adb_path
    /\ toast = "none"
    /\ last_update = [fetch |-> 0, devices |-> <<>>]
    /\ fetch_by = <<IF adb_path THEN "poll" ELSE "none">>

\* the poll timer fires: _start_polling
PollTimerFire ==
    /\ ~destroyed
    /\ refresh_count < MaxRefresh
    /\ \E t \in pending_timers :
          /\ RefreshDevices("poll")
          /\ pending_timers' = (pending_timers \ {t}) \cup {refresh_count + 1}
          /\ poll_job' = refresh_count + 1
    /\ UNCHANGED <<current_devices, active_mirrors, procs, launches, ui_queue,
                   destroyed, count_label, toast, last_update>>

\* the Refresh button: _refresh_devices
ManualRefresh ==
    /\ ~destroyed
    /\ refresh_count < MaxRefresh
    /\ RefreshDevices("manual")
    /\ UNCHANGED <<current_devices, active_mirrors, procs, launches, ui_queue,
                   pending_timers, poll_job, destroyed, count_label, toast,
                   last_update>>

\* a _fetch_and_update thread: get_adb_devices, then the dispatch of
\* _update_device_list with its result
FetchDone(f) ==
    /\ f \in fetching
    /\ fetching' = fetching \ {f}
    /\ \E lines \in AppListings, env \in AppEnvs, launched \in BOOLEAN :
          LET run == IF launched THEN RunOk(ToolOutput(lines)) ELSE RunFail
          IN  PostFromThread([call |-> "_update_device_list", fetch |-> f,
                              devices |-> get_adb_devices(run, env)])
    /\ UNCHANGED <<adb_path, scrcpy_path, current_devices, device_cards, cards,
                   active_mirrors, procs, launches, refresh_count,
                   pending_timers, poll_job, destroyed, count_label,
                   empty_shown, toast, last_update,
                   fetch_by>>

\* _update_device_list(devices)
UpdateDeviceList(f, devices) ==
    /\ last_update' = [fetch |-> f, devices |-> devices]
    /\ count_label' = Len(devices)
    /\ IF ListUnchanged(current_devices, devices)
       THEN UNCHANGED <<current_devices, device_cards, cards, empty_shown>>
       ELSE /\ current_devices' = devices
            /\ IF devices = <<>>
               THEN ShowEmpty
               ELSE /\ cards' = DestroyCards(cards, device_cards)
                               \o [i \in 1..Len(devices) |-> NewCard(devices[i])]
                    /\ device_cards' = [i \in 1..Len(devices) |-> Len(cards) + i]
                    /\ empty_shown' = FALSE

\* DeviceCard.reset_state
ResetState(cs, c) == [cs EXCEPT ![c].is_mirroring = FALSE]

\* the main loop runs the oldest callback posted with self.after(0, ...)
RunCallback ==
    /\ ~destroyed
    /\ ui_queue # <<>>
    /\ ui_queue' = Tail(ui_queue)
    /\ LET cb == Head(ui_queue)
       IN  CASE cb.call = "_update_device_list" ->
                  /\ UpdateDeviceList(cb.fetch, cb.devices)
                  /\ UNCHANGED toast
             [] cb.call = "reset_state" ->
                  /\ cards' = ResetState(cards, cb.card)
                  /\ UNCHANGED <<current_devices, device_cards, empty_shown,
                                 count_label, toast, last_update>>
             [] cb.call = "_show_toast" ->
                  /\ toast' = cb.text
                  /\ UNCHANGED <<current_devices, device_cards, cards,
                                 empty_shown, count_label, last_update>>
    /\ UNCHANGED <<adb_path, scrcpy_path, active_mirrors, procs, launches,
                   refresh_count, fetching, pending_timers, poll_job,
                   destroyed, fetch_by>>

NewLaunch(serial, c) ==
    [serial |-> serial, card |-> c, pc |-> "start", proc |-> 0, notified |-> 0]

\* _on_device_click(device, card), entered with card._is_mirroring set
OnDeviceClick(c) ==
    LET serial == cards[c].device[K_serial]
    IN  IF ~scrcpy_path
        THEN /\ toast' = "scrcpy not found"
             /\ cards' = ResetState(cards, c)
             /\ UNCHANGED <<active_mirrors, launches>>
        ELSE IF SessionLive(active_mirrors, procs, serial)
        THEN /\ toast' = "already mirroring"
             /\ cards' = ResetState(cards, c)
             /\ UNCHANGED <<active_mirrors, launches>>
        ELSE /\ Len(launches) < MaxLaunches
             /\ active_mirrors' = [x \in DOMAIN active_mirrors \ {serial} |->
                                      active_mirrors[x]]
             /\ toast' = "launching"
             /\ cards' = [cards EXCEPT ![c].is_mirroring = TRUE]
             /\ launches' = Append(launches, NewLaunch(serial, c))

\* a click on a displayed card: DeviceCard._handle_click
HandleClick(c) ==
    /\ ~destroyed
    /\ \E i \in 1..Len(device_cards) : device_cards[i] = c
    /\ cards[c].device[K_status] # T_unauthorized
    /\ ~cards[c].is_mirroring
    /\ OnDeviceClick(c)
    /\ UNCHANGED <<adb_path, scrcpy_path, current_devices, device_cards, procs,
                   refresh_count, fetching, ui_queue, pending_timers, poll_job,
                   destroyed, count_label, empty_shown, last_update,
                   fetch_by>>

\* faulty variant of AfterSpawnFailure: the cleanup is not in a finally clause
AfterSpawnFailure_NoFinally == "done"

\* where launch() continues when Popen raised: the except clause posts the
\* error toast, then the finally clause runs
AfterSpawnFailure == "finally"

\* launch(): subprocess.Popen (line 841)
LaunchSpawn(l) ==
    /\ launches[l].pc = "start"
    /\ \/ /\ procs' = Append(procs, [serial |-> launches[l].serial,
                                     state |-> "running", code |-> 0,
                                     terminated |-> FALSE,
                                     launches_at_exit |-> 0])
          /\ launches' = [launches EXCEPT ![l].pc = "spawned",
                                          ![l].proc = Len(procs) + 1]
          /\ UNCHANGED ui_queue
       \/ /\ launches' = [launches EXCEPT ![l].pc = AfterSpawnFailure]
          /\ PostFromThread([call |-> "_show_toast", text |-> "error"])
          /\ UNCHANGED procs
    /\ UNCHANGED <<adb_path, scrcpy_path, current_devices, device_cards, cards,
                   active_mirrors, refresh_count, fetching, pending_timers,
                   poll_job, destroyed, count_label, empty_shown, toast,
                   last_update,
                   fetch_by>>

\* launch(): self.active_mirrors[serial] = proc (line 848), then the two
\* monitor threads are started and the worker blocks in proc.wait()
LaunchRegister(l) ==
    /\ launches[l].pc = "spawned"
    /\ active_mirrors' = DictSet(active_mirrors, launches[l].serial,
                                 launches[l].proc)
    /\ launches' = [launches EXCEPT ![l].pc = "waiting"]
    /\ UNCHANGED <<adb_path, scrcpy_path, current_devices, device_cards, cards,
                   procs, refresh_count, fetching, ui_queue, pending_timers,
                   poll_job, destroyed, count_label, empty_shown, toast,
                   last_update,
                   fetch_by>>

\* the mirror process exits, with exit code 0 or not; launches_at_exit
\* records how many launches had been requested by then
ProcExit(p) ==
    /\ procs[p].state = "running"
    /\ \E code \in {0, 1} :
          procs' = [procs EXCEPT ![p].state = "exited", ![p].code = code,
                                 ![p].launches_at_exit = Len(launches)]
    /\ UNCHANGED <<adb_path, scrcpy_path, current_devices, device_cards, cards,
                   active_mirrors, launches, refresh_count, fetching, ui_queue,
                   pending_timers, poll_job, destroyed, count_label,
                   empty_shown, toast, last_update,
                   fetch_by>>

\* launch(): proc.wait() returns (line 876)
LaunchWaitReturn(l) ==
    /\ launches[l].pc = "waiting"
    /\ procs[launches[l].proc].state = "exited"
    /\ launches' = [launches EXCEPT ![l].pc = "finally"]
    /\ UNCHANGED <<adb_path, scrcpy_path, current_devices, device_cards, cards,
                   active_mirrors, procs, refresh_count, fetching, ui_queue,
                   pending_timers, poll_job, destroyed, count_label,
                   empty_shown, toast, last_update,
                   fetch_by>>

\* launch(): self.active_mirrors.pop(serial, None) (line 880)
LaunchPop(l) ==
    /\ launches[l].pc = "finally"
    /\ active_mirrors' = [x \in DOMAIN active_mirrors \ {launches[l].serial} |->
                             active_mirrors[x]]
    /\ launches' = [launches EXCEPT ![l].pc = "popped"]
    /\ UNCHANGED <<adb_path, scrcpy_path, current_devices, device_cards, cards,
                   procs, refresh_count, fetching, ui_queue, pending_timers,
                   poll_job, destroyed, count_label, empty_shown, toast,
                   last_update,
                   fetch_by>>

\* launch(): self.after(0, card.reset_state) (line 881)
LaunchNotify(l) ==
    /\ launches[l].pc = "popped"
    /\ launches' = [launches EXCEPT ![l].pc = "done",
                                    ![l].notified = @ + 1]
    /\ PostFromThread([call |-> "reset_state", card |-> launches[l].card])
    /\ UNCHANGED <<adb_path, scrcpy_path, current_devices, device_cards, cards,
                   active_mirrors, procs, refresh_count, fetching,
                   pending_timers, poll_job, destroyed, count_label,
                   empty_shown, toast, last_update,
                   fetch_by>>

\* lines 946-948: terminate every tracked process that has not exited
TerminateTracked(am, ps) ==
    [p \in 1..Len(ps) |->
        IF \E serial \in DOMAIN am : am[serial] = p /\ ps[p].state = "running"
        THEN [ps[p] EXCEPT !.terminated = TRUE]
        ELSE ps[p]]

\* destroy(): cancel the poll timer, terminate the tracked processes,
\* destroy the window (the main loop ends; queued callbacks never run)
Destroy ==
    /\ ~destroyed
    /\ pending_timers' = IF poll_job # 0 THEN pending_timers \ {poll_job}
                         ELSE pending_timers
    /\ procs' = TerminateTracked(active_mirrors, procs)
    /\ destroyed' = TRUE
    /\ ui_queue' = <<>>
    /\ cards' = [c \in 1..Len(cards) |-> [cards[c] EXCEPT !.alive = FALSE]]
    /\ UNCHANGED <<adb_path, scrcpy_path, current_devices, device_cards,
                   active_mirrors, launches, refresh_count, fetching, poll_job,
                   count_label, empty_shown, toast, last_update,
                   fetch_by>>

AppStill == UNCHANGED appVars

BridgeStill == UNCHANGED bridgeVars

MonitorStill == UNCHANGED monVars

UpdateStill == UNCHANGED updVars

\* ------------------------------------------------------------------------
\* Specifications
\* ------------------------------------------------------------------------

BridgeIdle ==
    /\ bridge_lines = <<>>
    /\ bridge_run = RunFail
    /\ bridge_env = AllGoodEnv
    /\ bridge_pc = "idle"
    /\ listed = <<>>

MonitorIdle ==
    /\ mon_stream = <<>>
    /\ mon_line = <<>>
    /\ mon_events = <<>>
    /\ mon_pc = "idle"

UpdateIdle ==
    /\ upd_response = [kind |-> "error", latest |-> <<>>]
    /\ upd_result = "None"
    /\ upd_pc = "idle"

AppIdle ==
    /\ adb_path = FALSE
    /\ scrcpy_path = FALSE
    /\ current_devices = <<>>
    /\ device_cards = <<>>
    /\ cards = <<>>
    /\ active_mirrors = NoMirrors
    /\ procs = <<>>
    /\ launches = <<>>
    /\ refresh_count = 0
    /\ fetching = {}
    /\ ui_queue = <<>>
    /\ pending_timers = {}
    /\ poll_job = 0
    /\ destroyed = FALSE
    /\ count_label = 0
    /\ empty_shown = FALSE
    /\ toast = "none"
    /\ last_update = [fetch |-> 0, devices |-> <<>>]
    /\ fetch_by = <<>>

Init == AppInit /\ BridgeIdle /\ MonitorIdle /\ UpdateIdle

Next ==
    \/ PollTimerFire /\ BridgeStill /\ MonitorStill /\ UpdateStill
    \/ ManualRefresh /\ BridgeStill /\ MonitorStill /\ UpdateStill
    \/ \E f \in 1..MaxRefresh : FetchDone(f) /\ BridgeStill /\ MonitorStill /\ UpdateStill
    \/ RunCallback /\ BridgeStill /\ MonitorStill /\ UpdateStill
    \/ \E c \in 1..Len(cards) : HandleClick(c) /\ BridgeStill /\ MonitorStill /\ UpdateStill
    \/ \E l \in 1..Len(launches) : LaunchSpawn(l) /\ BridgeStill /\ MonitorStill /\ UpdateStill
    \/ \E l \in 1..Len(launches) : LaunchRegister(l) /\ BridgeStill /\ MonitorStill /\ UpdateStill
    \/ \E p \in 1..Len(procs) : ProcExit(p) /\ BridgeStill /\ MonitorStill /\ UpdateStill
    \/ \E l \in 1..Len(launches) : LaunchWaitReturn(l) /\ BridgeStill /\ MonitorStill /\ UpdateStill
    \/ \E l \in 1..Len(launches) : LaunchPop(l) /\ BridgeStill /\ MonitorStill /\ UpdateStill
    \/ \E l \in 1..Len(launches) : LaunchNotify(l) /\ BridgeStill /\ MonitorStill /\ UpdateStill
    \/ Destroy /\ BridgeStill /\ MonitorStill /\ UpdateStill

Spec == Init /\ [][Next]_vars

BridgeSpecInit == BridgeInit /\ MonitorIdle /\ UpdateIdle /\ AppIdle

BridgeSpecNext == ListDevices /\ MonitorStill /\ UpdateStill /\ AppStill

MonitorSpecInit == MonitorInit /\ BridgeIdle /\ UpdateIdle /\ AppIdle

MonitorSpecNext ==
    \/ MonitorRead /\ BridgeStill /\ UpdateStill /\ AppStill
    \/ MonitorEof /\ BridgeStill /\ UpdateStill /\ AppStill
    \/ MonitorError /\ BridgeStill /\ UpdateStill /\ AppStill

UpdateSpecInit == UpdateInit /\ BridgeIdle /\ MonitorIdle /\ AppIdle

UpdateSpecNext == CheckForUpdate /\ BridgeStill /\ MonitorStill /\ AppStill

BridgeSpec == BridgeSpecInit /\ [][BridgeSpecNext]_vars

MonitorSpec == MonitorSpecInit /\ [][MonitorSpecNext]_vars

UpdateSpec == UpdateSpecInit /\ [][UpdateSpecNext]_vars

\* ------------------------------------------------------------------------
\* Properties
\* ------------------------------------------------------------------------

LiveProcs(serial) ==
    {p \in 1..Len(procs) : procs[p].serial = serial /\ procs[p].state = "running"}

Tracked(serial) ==
    /\ serial \in DOMAIN active_mirrors
    /\ procs[active_mirrors[serial]].state = "running"

\* C1: in every reachable state each serial has at most one mirror process
\* that has been started and has not exited.
C1_OneLiveProcessPerSerial ==
    \A serial \in Serials : Cardinality(LiveProcs(serial)) <= 1

\* C2: a click that requests a launch for a serial whose tracked process is
\* still running is rejected as busy: no launch worker and no process is
\* added, and the live-sessions map stays as it was.
C2_BusyLaunchRejected ==
    [][\A c \in 1..Len(cards) :
          (HandleClick(c) /\ Tracked(cards[c].device[K_serial]))
          => /\ toast' = "already mirroring"
             /\ launches' = launches
             /\ procs' = procs
             /\ active_mirrors' = active_mirrors]_vars

\* C2 witness: a busy rejection has just been reported while the session
\* of some serial is live and tracked.
C2_Witness ==
    /\ toast = "already mirroring"
    /\ \E serial \in Serials : Tracked(serial)
    /\ Len(launches) = 1

\* C3: every launch worker issues the card-reset dispatch exactly once: not
\* before it finishes, and once when it has finished, however its process
\* ended and also when the process could not be spawned.
C3_NotifiedExactlyOnce ==
    \A l \in 1..Len(launches) :
        launches[l].notified = (IF launches[l].pc = "done" THEN 1 ELSE 0)

\* C3 witness: one worker finished after a spawn failure and another after
\* its process exited with a non-zero code, each having notified once.
C3_Witness ==
    /\ \E l \in 1..Len(launches) :
          /\ launches[l].pc = "done"
          /\ launches[l].proc = 0
          /\ launches[l].notified = 1
    /\ \E l \in 1..Len(launches) :
          /\ launches[l].pc = "done"
          /\ launches[l].proc # 0
          /\ procs[launches[l].proc].code = 1
          /\ launches[l].notified = 1

\* C4: when a worker issues the session-ended notification for a process
\* that exited, and no launch for that serial was requested after the exit,
\* the serial is absent from the live-sessions map.
C4_AbsentWhenNotified ==
    [][\A l \in 1..Len(launches) :
          ( /\ launches[l].pc = "popped"
            /\ launches'[l].pc = "done"
            /\ launches[l].proc # 0
            /\ \A k \in 1..Len(launches) :
                  launches[k].serial = launches[l].serial
                  => k <= procs[launches[l].proc].launches_at_exit )
          => launches[l].serial \notin DOMAIN active_mirrors]_vars

HasStatus(events, text) ==
    \E i \in 1..Len(events) :
        events[i].call = "_update_apk_status" /\ events[i].arg = text

\* C5: every line read that contains "failure", "failed" or "error" yields
\* the failure status and every line that contains "success" yields the
\* success status, whatever else the line contains.
C5_EachMarkerGroupReported ==
    LET l == lower(mon_line)
    IN  /\ (Contains(l, T_failure) \/ Contains(l, T_failed) \/ Contains(l, T_error))
           => HasStatus(mon_events, "Failed!")
        /\ Contains(l, T_success) => HasStatus(mon_events, "Success!")

SameSerialsAndLength(a, b) ==
    /\ {a[i][K_serial] : i \in 1..Len(a)} = {b[i][K_serial] : i \in 1..Len(b)}
    /\ Len(a) = Len(b)

\* C6: a reconciliation whose list has the serial set and the length of the
\* stored snapshot leaves the snapshot, the card list and every card as they
\* were.
C6_UnchangedListKeepsCards ==
    [][( /\ RunCallback
         /\ Head(ui_queue).call = "_update_device_list"
         /\ SameSerialsAndLength(Head(ui_queue).devices, current_devices) )
       => /\ current_devices' = current_devices
          /\ device_cards' = device_cards
          /\ cards' = cards
          /\ count_label' = Len(Head(ui_queue).devices)]_vars

\* C6 witness: the list reconciled last had the snapshot's serials and
\* length but other property values, and the snapshot and cards were kept.
C6_Witness ==
    /\ current_devices # <<>>
    /\ last_update.devices # current_devices
    /\ SameSerialsAndLength(last_update.devices, current_devices)
    /\ Len(device_cards) = Len(current_devices)

\* C7: the step that shuts the application down sends a terminate signal to
\* every mirror process that has been started and has not exited.
C7_ShutdownTerminatesAll ==
    [][(~destroyed /\ destroyed')
       => \A p \in 1..Len(procs) :
             procs[p].state = "running" => procs'[p].terminated]_vars

\* C8: once the application is destroyed no poll timer is pending and no
\* device-list reconciliation is posted to it.
C8_NoPollingAfterDestroy ==
    destroyed
    => /\ pending_timers = {}
       /\ \A i \in 1..Len(ui_queue) : ui_queue[i].call # "_update_device_list"

T_model_colon == <<"m", "o", "d", "e", "l", ":">>
E_model1 == <<"P", "i", "x", "e", "l">>
E_model2 == <<"N", "e", "o">>
E_manu1 == <<"g", "o", "o", "g", "l", "e">>
E_manu2 == <<"a", "c", "m", "e">>
E_rel1 == <<"1", "4">>
E_rel2 == <<"9">>
E_sdk1 == <<"3", "4">>
E_sdk2 == <<"2", "8">>
E_size1 == <<"1", "0", "8", "0", "x", "2", "3", "4", "0">>
E_size2 == <<"7", "2", "0", "x", "1", "2", "8", "0">>

\* a line that names a device to list: non-blank, without "offline", with
\* a second token "device" or "unauthorized"
Eligible(line) ==
    /\ strip(line) # <<>>
    /\ ~Contains(line, T_offline)
    /\ Len(split(line)) >= 2
    /\ split(line)[2] \in {T_device, T_unauthorized}

EligibleLines == SelectSeq(bridge_lines, Eligible)

\* C9: the list returned holds one device per eligible line after the
\* header, in line order, with the line's first token as serial and its
\* second as status.
C9_ListsEligibleLinesInOrder ==
    (bridge_pc = "done" /\ bridge_run.ok)
    => /\ Len(listed) = Len(EligibleLines)
       /\ \A i \in 1..Len(listed) :
             /\ listed[i][K_serial] = split(EligibleLines[i])[1]
             /\ listed[i][K_status] = split(EligibleLines[i])[2]

\* C9 witness: a listing of two devices from an output that also held a
\* line with another status.
C9_Witness ==
    /\ bridge_pc = "done"
    /\ bridge_lines = <<L_unauth2, L_recovery, L_dev1>>
    /\ Len(listed) = 2

QueryFailed(serial, q) ==
    ~bridge_env[serial][q].ok \/ bridge_env[serial][q].stdout = <<>>

QueryKey(q) ==
    CASE q = "ro.product.model" -> K_model
      [] q = "ro.product.manufacturer" -> K_manufacturer
      [] q = "ro.build.version.release" -> K_android_version
      [] q = "ro.build.version.sdk" -> K_sdk
      [] q = "wm size" -> K_resolution
      [] q = "dumpsys battery" -> K_battery

\* the value each query yields for each serial when it succeeds
GoodValue(serial, q) ==
    IF serial = S1
    THEN CASE q = "ro.product.model" -> E_model1
           [] q = "ro.product.manufacturer" -> E_manu1
           [] q = "ro.build.version.release" -> E_rel1
           [] q = "ro.build.version.sdk" -> E_sdk1
           [] q = "wm size" -> E_size1
           [] q = "dumpsys battery" -> <<80>>
    ELSE CASE q = "ro.product.model" -> E_model2
           [] q = "ro.product.manufacturer" -> E_manu2
           [] q = "ro.build.version.release" -> E_rel2
           [] q = "ro.build.version.sdk" -> E_sdk2
           [] q = "wm size" -> E_size2
           [] q = "dumpsys battery" -> <<5>>

\* the model named by a model:<value> token of the line, else the serial
ListedModel(line) ==
    LET toks == split(line)
        named == {j \in 3..Len(toks) :
                     /\ Len(toks[j]) >= Len(T_model_colon)
                     /\ SubSeq(toks[j], 1, Len(T_model_colon)) = T_model_colon}
    IN  IF named = {} THEN toks[1]
        ELSE LET j == CHOOSE j \in named : \A k \in named : k <= j
             IN  SubSeq(toks[j], Len(T_model_colon) + 1, Len(toks[j]))

SerialsInOrder ==
    /\ Len(listed) = Len(EligibleLines)
    /\ \A i \in 1..Len(listed) : listed[i][K_serial] = split(EligibleLines[i])[1]

\* C10 as stated: whatever queries fail, every eligible device is listed in
\* order, every failed property is empty or absent and every other property
\* has the value its query gave.
C10_FailedPropertiesEmpty ==
    (bridge_pc = "done" /\ bridge_run.ok)
    => /\ SerialsInOrder
       /\ \A i \in 1..Len(listed) :
             listed[i][K_status] = T_device
             => \A q \in Queries :
                   listed[i][QueryKey(q)] =
                      IF QueryFailed(listed[i][K_serial], q) THEN <<>>
                      ELSE GoodValue(listed[i][K_serial], q)

\* C10 amended: as stated, except that a failed model query leaves the
\* model named in the device's line, or else the serial.
C10_FailedPropertiesDegrade ==
    (bridge_pc = "done" /\ bridge_run.ok)
    => /\ SerialsInOrder
       /\ \A i \in 1..Len(listed) :
             listed[i][K_status] = T_device
             => \A q \in Queries :
                   listed[i][QueryKey(q)] =
                      IF ~QueryFailed(listed[i][K_serial], q)
                      THEN GoodValue(listed[i][K_serial], q)
                      ELSE IF q = "ro.product.model"
                      THEN ListedModel(EligibleLines[i])
                      ELSE <<>>

\* C10 witness: two devices are listed; for the first the model and battery
\* queries failed and the resolution query succeeded.
C10_Witness ==
    /\ bridge_pc = "done"
    /\ bridge_lines = <<L_dev1, L_dev2>>
    /\ Len(listed) = 2
    /\ QueryFailed(S1, "ro.product.model")
    /\ QueryFailed(S1, "dumpsys battery")
    /\ ~QueryFailed(S1, "wm size")
    /\ listed[1][K_resolution] = E_size1

\* the components of a version, read as the claim reads them
RECURSIVE PadTo(_, _)
PadTo(t, n) == IF Len(t) >= n THEN t ELSE PadTo(Append(t, 0), n)

\* a exceeds b component by component, a missing component counting as 0
NumericallyGreater(a, b) ==
    LET n == IF Len(a) > Len(b) THEN Len(a) ELSE Len(b)
    IN  TupleGreater(PadTo(a, n), PadTo(b, n))

\* C11: the update check yields the metadata exactly when the remote
\* version, as a tuple of its dot-separated integers (0,0,0 when a component
\* is not numeric), exceeds (2,0,0) numerically; versions numerically equal
\* to 2.0.0 such as "2.0" and "2.0.0.0" yield no update.
C11_UpdateIffStrictlyNewer ==
    (upd_pc = "done" /\ upd_response.kind = "data" /\ upd_response.latest # <<>>)
    => (upd_result = "data"
        <=> NumericallyGreater(_parse_version(upd_response.latest[1]),
                               <<2, 0, 0>>))

\* the device queries started by polling cycles that have not yet
\* dispatched their reconciliation
PollQueriesInFlight == {f \in fetching : fetch_by[f] = "poll"}

\* C12: at no time are the device queries of two polling cycles in flight.
C12_PollingCyclesSequential == Cardinality(PollQueriesInFlight) <= 1

\* a step taken by the UI context: a callback or timer run by the main loop,
\* a click, a press of the Refresh button, or destroy()
UIContextStep ==
    \/ RunCallback
    \/ PollTimerFire
    \/ ManualRefresh
    \/ \E c \in 1..Len(cards) : HandleClick(c)
    \/ Destroy

\* C13: the live-sessions map and the stored snapshot change only in steps
\* taken by the UI context, never in a step of a worker thread.
C13_WrittenOnlyOnUIContext ==
    [][(active_mirrors' # active_mirrors \/ current_devices' # current_devices)
       => UIContextStep]_vars

\* C14: the card list holds one card per device of the stored snapshot, in
\* the snapshot's order, and each card shows the snapshot's entry.
C14_CardsMatchSnapshot ==
    /\ Len(device_cards) = Len(current_devices)
    /\ \A i \in 1..Len(device_cards) :
          /\ cards[device_cards[i]].device = current_devices[i]
          /\ destroyed \/ cards[device_cards[i]].alive
    /\ \A i, j \in 1..Len(device_cards) :
          device_cards[i] = device_cards[j] => i = j

\* C14 witness: a second reconciliation replaced a one-device snapshot by a
\* two-device one and rebuilt the cards; the first card was destroyed.
C14_Witness ==
    /\ ~destroyed
    /\ last_update.fetch = 2
    /\ Len(current_devices) = 2
    /\ Len(cards) = 3
    /\ ~cards[1].alive

\* C15: a step that reconciles the empty result of a polling cycle leaves
\* the empty state displayed.
C15_EmptyStateShownWhenNoDevices ==
    [][( /\ RunCallback
         /\ Head(ui_queue).call = "_update_device_list"
         /\ fetch_by[Head(ui_queue).fetch] = "poll"
         /\ Head(ui_queue).devices = <<>> )
       => empty_shown']_vars

\* C16: a step that reconciles the result of a polling cycle leaves that
\* result as the stored snapshot, entry by entry.
C16_SnapshotIsLatestResult ==
    [][( /\ RunCallback
         /\ Head(ui_queue).call = "_update_device_list"
         /\ fetch_by[Head(ui_queue).fetch] = "poll" )
       => current_devices' = Head(ui_queue).devices]_vars

\* C17: the step in which reading a session's output stream raises an
\* error dispatches the failure status.
C17_StreamErrorReported ==
    [][(mon_pc = "reading" /\ mon_pc' = "error")
       => HasStatus(mon_events', "Failed!")]_vars

\* C18: results are reconciled in the order in which their queries were
\* started: each reconciled result belongs to a query started after the
\* query of the result reconciled before it.
C18_SnapshotNeverRegresses ==
    [][( /\ RunCallback
         /\ Head(ui_queue).call = "_update_device_list" )
       => Head(ui_queue).fetch > last_update.fetch]_vars

\* C19: when a launch worker whose process has exited runs its cleanup while
\* the map holds, for the same serial, the process of a session launched
\* after that exit, the cleanup leaves the map as it is.
C19_CleanupRemovesOnlyOwnEntry ==
    [][\A l \in 1..Len(launches) :
          ( /\ LaunchPop(l)
            /\ launches[l].proc # 0
            /\ launches[l].serial \in DOMAIN active_mirrors
            /\ \E k \in 1..Len(launches) :
                  /\ k > procs[launches[l].proc].launches_at_exit
                  /\ launches[k].proc = active_mirrors[launches[l].serial]
                  /\ procs[launches[k].proc].state = "running" )
          => active_mirrors' = active_mirrors]_vars

====
